---- MODULE Spec2Model ----
(***************************************************************************)
(* Payment-gateway synchronisation core of black-belt-services:            *)
(*   - efi.TokenManager and the authenticated request helpers              *)
(*     (internal/adapters/efi/auth.go, client.go)                          *)
(*   - the webhook handlers (internal/adapters/efi/webhooks.go,            *)
(*     internal/handlers/webhooks.go)                                      *)
(*   - the domain entities WebhookEvent, Subscription and PaymentHistory   *)
(*     (internal/domain/plan.go) and the payment-event flow of             *)
(*     docs/FLOWS.md.                                                      *)
(* Each component has its own specification over the shared variables.     *)
(***************************************************************************)
EXTENDS Integers, Sequences, FiniteSets, TLC

(***************************************************************************)
(* Bounds of the model.                                                    *)
(***************************************************************************)
NumGoroutines == 2      \* goroutines sharing one TokenManager
MaxCalls == 2           \* calls started per behaviour, over all goroutines
MaxTicks == 1           \* clock steps of 30 s per behaviour

(***************************************************************************)
(* Program constants.                                                      *)
(***************************************************************************)
RefreshLead == 60       \* refreshLead, in seconds
ZeroTime == 0           \* time.Time{}: before every instant of the clock
StartTime == ZeroTime + 600   \* the clock when the TokenManager is built

NoToken == 0            \* the empty string ""; token k > 0 is the
                        \* access_token answered to the k-th token request
None == 0 - 1            \* "no value" in the history fields

Goroutines == 1..NumGoroutines

\* expires_in values (seconds) the token endpoint may answer
ExpiresInValues == {30, 60, 90}

\* the expires_in answered with an empty access_token: no check reads
\* expiresAt while the token is "", so one value stands for all
EmptyTokenExpiresIn == 90

\* answers of the token endpoint: the three failures of refresh, or a 200
\* whose access_token is empty or not, with an expires_in
TokenAnswers ==
    [kind : {"transport_error", "non200", "bad_json"}, empty : {FALSE}, ein : {0}]
    \cup [kind : {"ok"}, empty : {FALSE}, ein : ExpiresInValues]
    \cup [kind : {"ok"}, empty : {TRUE}, ein : {EmptyTokenExpiresIn}]

\* outcomes of an authenticated API request: a transport error or a status
ApiOutcomes == {"transport_error", "200", "401", "404", "500"}

VARIABLES
    token,        \* TokenManager.token
    expiresAt,    \* TokenManager.expiresAt
    mu,           \* holder of TokenManager.mu's exclusive lock, 0 when free
    now,          \* time.Now(), in seconds
    pc,           \* pc[g]: where goroutine g stands in its call
    call,         \* call[g]: locals and results of g's current call
    reqCount,     \* token-endpoint requests sent so far
    calls,        \* calls started so far
    invMark,      \* reqCount when Invalidate last returned, None if never
    \* domain.WebhookEvent
    ev,           \* the WebhookEvent: Status, RetryCount, NextRetryAt, ...
    minute,       \* time.Now(), in minutes
    failLog,      \* history: what each MarkFailed call found and left
    \* domain.Subscription and payment_history
    sub,          \* the Subscription
    payments,     \* the PaymentHistory rows, in insert order
    day,          \* time.Now(), in days
    subOps,       \* operations applied so far
    statusSince,  \* history: the day the Subscription came to its status
    jobs,         \* the periodic jobs: runs, gateway calls, the last run
    \* webhook handlers
    invoked,      \* invoked[c]: how often callback c has been invoked
    last,         \* the last delivery: request, configuration and answer
    deliveries,   \* requests delivered so far
    serve,        \* one request being served, step by step
    \* domain.PaymentHistory
    pay,          \* the PaymentHistory record
    payOps,       \* methods called on it so far
    \* Client.WaitForRecurrenceApproval
    wait,         \* one call: its position, clock, context and result
    \* two goroutines working on one Subscription
    race,         \* the shared Subscription and each goroutine's position
    \* efi.Client's methods and the errors they return
    cli,          \* the last call: its input, the gateway's answer, its error
    \* readCloser, the body of an authenticated request
    rd            \* the readCloser held by req.Body and what was read from it

tokenVars == <<token, expiresAt, mu, now, pc, call, reqCount, calls, invMark>>
eventVars == <<ev, minute, failLog>>
subVars == <<sub, payments, day, subOps, statusSince, jobs>>
hookVars == <<invoked, last, deliveries, serve>>
payVars == <<pay, payOps>>
pollVars == <<wait>>
raceVars == <<race>>
cliVars == <<cli>>
readVars == <<rd>>

vars == <<tokenVars, eventVars, subVars, hookVars, payVars, pollVars, raceVars,
          cliVars, readVars>>

(***************************************************************************)
(* TokenManager                                                            *)
(*                                                                         *)
(* The read-locked section of GetToken only reads, so it is one step; the  *)
(* exclusive lock of refresh is held from the double-check until the       *)
(* answer of the token endpoint has been handled (defer Unlock), which is  *)
(* two steps with mu held in between.                                      *)
(***************************************************************************)

\* a call that has not started: every field is empty
NoCall ==
    [op |-> "none", tok |-> NoToken, err |-> "nil", remain |-> None,
     ein |-> None, missAt |-> None, startInv |-> None, myReq |-> 0,
     attempts |-> 0, status |-> "none", rejected |-> None, stale |-> {},
     cleared |-> None]

\* the token request whose answer a call holds as its token: token k is
\* the answer to the k-th request, and an empty token is only ever
\* returned by the call that requested it
TokenSource(c) == IF c.tok # NoToken THEN c.tok ELSE c.myReq

\* history: the tokens (by their requests) that the gateway has answered
\* with 401 to calls that have returned by now
RejectedTokens ==
    {call[g].rejected : g \in {h \in Goroutines :
                                 pc[h] = "done" /\ call[h].rejected # None}}

\* GetToken's check under the read lock
FastPathNoLead(t) == token # NoToken /\ t < expiresAt
FastPathValid(t) == token # NoToken /\ t + RefreshLead < expiresAt

\* refresh's double-check under the exclusive lock
DoubleCheckSkipped(t) == FALSE
DoubleCheckValid(t) == token # NoToken /\ t + RefreshLead < expiresAt

LockNotTaken == TRUE

\* tm.mu.Lock() goes through: nobody holds the exclusive lock
Lock == mu = 0

\* where a call goes once GetToken has returned a token
AfterToken(op) == IF op = "GetToken" THEN "done" ELSE "send"

\* GetToken returns the cached token (fast path or double-check)
ReturnCached(g, c) ==
    /\ call' = [call EXCEPT ![g] =
                  [c EXCEPT !.tok = token, !.remain = expiresAt - now]]
    /\ pc' = [pc EXCEPT ![g] = AfterToken(c.op)]

\* A goroutine calls GetToken, directly or as the first statement of
\* doRequest / doAuthenticatedRequest: the read-locked fast path.
StartCall(g, op) ==
    /\ pc[g] \in {"idle", "done"}
    /\ mu = 0
    /\ calls < MaxCalls
    /\ calls' = calls + 1
    /\ LET c == [NoCall EXCEPT !.op = op, !.startInv = invMark,
                               !.stale = RejectedTokens] IN
       IF FastPathValid(now)
       THEN ReturnCached(g, c)
       ELSE /\ call' = [call EXCEPT ![g] = [c EXCEPT !.missAt = reqCount]]
            /\ pc' = [pc EXCEPT ![g] = "refresh"]
    /\ UNCHANGED <<token, expiresAt, mu, now, reqCount, invMark>>
    /\ UNCHANGED <<eventVars, subVars, hookVars, payVars, pollVars, raceVars, cliVars, readVars>>

GetToken(g) == StartCall(g, "GetToken")

DoRequest(g) == StartCall(g, "doRequest")

\* refresh: take the exclusive lock and double-check; either return the
\* token another goroutine stored, or send the token request (lock kept).
RefreshLock(g) ==
    /\ pc[g] = "refresh"
    /\ Lock
    /\ IF DoubleCheckValid(now)
       THEN /\ ReturnCached(g, call[g])
            /\ UNCHANGED <<mu, reqCount>>
       ELSE /\ reqCount' = reqCount + 1
            /\ mu' = g
            /\ call' = [call EXCEPT ![g].myReq = reqCount + 1]
            /\ pc' = [pc EXCEPT ![g] = "inflight"]
    /\ UNCHANGED <<token, expiresAt, now, calls, invMark>>
    /\ UNCHANGED <<eventVars, subVars, hookVars, payVars, pollVars, raceVars, cliVars, readVars>>

\* refresh fails (transport error, non-200 answer, undecodable body): the
\* error is returned before any field is written
RefreshFailureEvicts(g, kind) ==
    /\ call' = [call EXCEPT ![g].err = kind]
    /\ pc' = [pc EXCEPT ![g] = "done"]
    /\ token' = NoToken
    /\ expiresAt' = ZeroTime
RefreshFailure(g, kind) ==
    /\ call' = [call EXCEPT ![g].err = kind]
    /\ pc' = [pc EXCEPT ![g] = "done"]
    /\ UNCHANGED <<token, expiresAt>>

\* refresh succeeds: the cache is updated and the new token returned
RefreshSuccess(g, empty, ein) ==
    LET t == IF empty THEN NoToken ELSE call[g].myReq
        e == now + ein
    IN  /\ token' = t
        /\ expiresAt' = e
        /\ call' = [call EXCEPT ![g].tok = t, ![g].remain = e - now,
                                ![g].ein = ein]
        /\ pc' = [pc EXCEPT ![g] = AfterToken(call[g].op)]

\* The token endpoint answers the request of the goroutine holding the lock;
\* the deferred Unlock runs on every path.
RefreshResponse(g, ans) ==
    /\ pc[g] = "inflight"
    /\ mu = g
    /\ IF ans.kind = "ok"
       THEN RefreshSuccess(g, ans.empty, ans.ein)
       ELSE RefreshFailure(g, ans.kind)
    /\ mu' = 0
    /\ UNCHANGED <<now, reqCount, calls, invMark>>
    /\ UNCHANGED <<eventVars, subVars, hookVars, payVars, pollVars, raceVars, cliVars, readVars>>

\* the fields Invalidate writes
InvalidateClearsNothing == [token |-> token, expiresAt |-> expiresAt]
InvalidatedFields == [token |-> NoToken, expiresAt |-> ZeroTime]

\* TokenManager.Invalidate, called on its own by a goroutine between calls
Invalidate(g) ==
    /\ pc[g] \in {"idle", "done"}
    /\ Lock
    /\ token' = InvalidatedFields.token
    /\ expiresAt' = InvalidatedFields.expiresAt
    /\ invMark' = reqCount
    /\ UNCHANGED <<mu, now, pc, call, reqCount, calls>>
    /\ UNCHANGED <<eventVars, subVars, hookVars, payVars, pollVars, raceVars, cliVars, readVars>>

(***************************************************************************)
(* Client.doRequest and doAuthenticatedRequest                             *)
(***************************************************************************)

ReturnOnEveryStatus(outcome) == "done"
InvalidateOnEveryFailure(outcome) ==
    IF outcome = "200" THEN "done" ELSE "invalidate"

\* where the call goes once the response (or a transport error) is in:
\* a 401 runs tokenManager.Invalidate() and returns, everything else returns
ApiNextPc(outcome) == IF outcome = "401" THEN "invalidate" ELSE "done"

\* the error doRequest returns for an outcome
ApiError(outcome) ==
    CASE outcome = "transport_error" -> "http_error"
      [] outcome = "200" -> "nil"
      [] outcome = "401" -> "unauthorized"
      [] OTHER -> "api_error"

\* After GetToken: the request is sent once with the bearer token and the
\* response classified. Of the GetToken call only the token used is kept,
\* and only while the 401 branch still has to run.
ApiRequest(g, outcome) ==
    /\ pc[g] = "send"
    /\ call' = [call EXCEPT ![g] =
                  [NoCall EXCEPT !.op = call[g].op,
                                 !.tok = IF outcome = "401" THEN call[g].tok
                                                            ELSE NoToken,
                                 !.attempts = call[g].attempts + 1,
                                 !.status = outcome,
                                 !.rejected = IF outcome = "401"
                                              THEN TokenSource(call[g])
                                              ELSE None,
                                 !.err = ApiError(outcome)]]
    /\ pc' = [pc EXCEPT ![g] = ApiNextPc(outcome)]
    /\ UNCHANGED <<token, expiresAt, mu, now, reqCount, calls, invMark>>
    /\ UNCHANGED <<eventVars, subVars, hookVars, payVars, pollVars, raceVars, cliVars, readVars>>

\* the 401 branch: tokenManager.Invalidate(), then the error is returned
InvalidateOn401(g) ==
    /\ pc[g] = "invalidate"
    /\ Lock
    /\ token' = InvalidatedFields.token
    /\ expiresAt' = InvalidatedFields.expiresAt
    /\ invMark' = reqCount
    /\ pc' = [pc EXCEPT ![g] = "done"]
    /\ call' = [call EXCEPT ![g].tok = NoToken, ![g].cleared = token]
    /\ UNCHANGED <<mu, now, reqCount, calls>>
    /\ UNCHANGED <<eventVars, subVars, hookVars, payVars, pollVars, raceVars, cliVars, readVars>>

\* the clock advances by 30 s
Tick ==
    /\ now < StartTime + 30 * MaxTicks
    /\ now' = now + 30
    /\ UNCHANGED <<token, expiresAt, mu, pc, call, reqCount, calls, invMark>>
    /\ UNCHANGED <<eventVars, subVars, hookVars, payVars, pollVars, raceVars, cliVars, readVars>>

TokenInit ==
    /\ token = NoToken
    /\ expiresAt = ZeroTime
    /\ mu = 0
    /\ now = StartTime
    /\ pc = [g \in Goroutines |-> "idle"]
    /\ call = [g \in Goroutines |-> NoCall]
    /\ reqCount = 0
    /\ calls = 0
    /\ invMark = None

(***************************************************************************)
(* domain.WebhookEvent (internal/domain/plan.go)                           *)
(*                                                                         *)
(* One audited event and the clock, in minutes.  The Mark* methods are     *)
(* plain setters: none of them looks at the current status.                *)
(***************************************************************************)

MaxFailures == 7        \* MarkFailed calls per behaviour
MaxMinutes == 3         \* clock steps of one minute per behaviour

MaxWebhookRetries == 5  \* const MaxWebhookRetries

\* x << n on an integer: x doubled n times
RECURSIVE ShiftLeft(_, _)
ShiftLeft(x, n) == IF n = 0 THEN x ELSE ShiftLeft(2 * x, n - 1)

BackoffLinear(retryCount) == retryCount

\* time.Duration(1<<uint(w.RetryCount-1)) * time.Minute, in minutes
Backoff(retryCount) == ShiftLeft(1, retryCount - 1)

NewWebhookEvent ==
    [status |-> "pending", retryCount |-> 0, nextRetryAt |-> None,
     processedAt |-> None, hasError |-> FALSE]

CanRetryFailed(w) == w.status = "failed"

CanRetry(w) == w.status = "failed" /\ w.retryCount <= MaxWebhookRetries

IsRetryDueAnyStatus(w, t) == w.nextRetryAt # None /\ t > w.nextRetryAt

\* at time t
IsRetryDue(w, t) ==
    IF ~CanRetry(w) \/ w.nextRetryAt = None THEN FALSE ELSE t > w.nextRetryAt

MarkProcessing ==
    /\ ev' = [ev EXCEPT !.status = "processing"]
    /\ UNCHANGED <<minute, failLog>>
    /\ UNCHANGED <<tokenVars, subVars, hookVars, payVars, pollVars, raceVars, cliVars, readVars>>

MarkProcessed ==
    /\ ev' = [ev EXCEPT !.status = "processed", !.processedAt = minute]
    /\ UNCHANGED <<minute, failLog>>
    /\ UNCHANGED <<tokenVars, subVars, hookVars, payVars, pollVars, raceVars, cliVars, readVars>>

MarkFailed ==
    /\ ev.retryCount < MaxFailures
    /\ LET count == ev.retryCount + 1
           next == IF count <= MaxWebhookRetries
                   THEN minute + Backoff(count)
                   ELSE ev.nextRetryAt
       IN  /\ ev' = [ev EXCEPT !.status = "failed", !.hasError = TRUE,
                               !.retryCount = count, !.nextRetryAt = next]
           /\ failLog' = Append(failLog,
                  [at |-> minute, before |-> ev.nextRetryAt, after |-> next])
    /\ UNCHANGED minute
    /\ UNCHANGED <<tokenVars, subVars, hookVars, payVars, pollVars, raceVars, cliVars, readVars>>

MarkSkipped ==
    /\ ev' = [ev EXCEPT !.status = "skipped"]
    /\ UNCHANGED <<minute, failLog>>
    /\ UNCHANGED <<tokenVars, subVars, hookVars, payVars, pollVars, raceVars, cliVars, readVars>>

MinuteTick ==
    /\ minute < MaxMinutes
    /\ minute' = minute + 1
    /\ UNCHANGED <<ev, failLog>>
    /\ UNCHANGED <<tokenVars, subVars, hookVars, payVars, pollVars, raceVars, cliVars, readVars>>

EventInit ==
    /\ ev = NewWebhookEvent
    /\ minute = 0
    /\ failLog = <<>>

(***************************************************************************)
(* WebhookService.Process and WebhookService.RetryFailed over the          *)
(* WebhookEvent: a run of Process marks the event processing and then      *)
(* processed or failed; the retry job starts a run for an event whose      *)
(* retry is due.                                                           *)
(***************************************************************************)

\* the first run of Process, for the event as it was stored
Process ==
    /\ ev.status = "pending"
    /\ MarkProcessing

\* the run succeeds
ProcessSucceeds ==
    /\ ev.status = "processing"
    /\ MarkProcessed

\* the run fails
ProcessFails ==
    /\ ev.status = "processing"
    /\ MarkFailed

\* the retry job finds the event due and runs Process on it again
RetryFailed ==
    /\ IsRetryDue(ev, minute)
    /\ MarkProcessing

\* the time until the job runs next: up to the scheduled retry (late == 0)
\* or just beyond it (late == 1)
RetryWait(late) ==
    /\ ev.status = "failed"
    /\ ev.nextRetryAt # None
    /\ minute < ev.nextRetryAt + late
    /\ minute' = ev.nextRetryAt + late
    /\ UNCHANGED <<ev, failLog>>
    /\ UNCHANGED <<tokenVars, subVars, hookVars, payVars, pollVars, raceVars, cliVars, readVars>>

(***************************************************************************)
(* domain.Subscription (internal/domain/plan.go) and the payment-received  *)
(* flow of docs/FLOWS.md, with the payment_history ledger.                 *)
(*                                                                         *)
(* Times are days.  AddDate(0, 1, 0) is taken as MonthDays days.           *)
(***************************************************************************)

MaxSubOps == 3          \* subscription operations per behaviour
MaxDays == 2            \* clock steps of one day per behaviour

MonthDays == 30         \* one billing month
TrialLength == 20       \* the trial: trial_end_date = NOW() + 20 days

PaymentGateways == {"pix_auto", "stripe"}
NoGateway == "none"

\* gateway payment ids (pix txid or stripe payment intent) of the events
PaymentIDs == {1, 2}

\* the periods a caller hands to Activate
Periods == {[start |-> 0 - MonthDays, end |-> 0], [start |-> 0, end |-> MonthDays]}

NewTrialSubscription(t, trialDays) ==
    [status |-> "trialing", gateway |-> NoGateway,
     trialStart |-> t, trialEnd |-> t + trialDays,
     periodStart |-> t, periodEnd |-> t + MonthDays,
     canceledAt |-> None, cancelAtPeriodEnd |-> FALSE, cancelReason |-> FALSE]

\* the step every operation shares: it is counted, the clock stands
SubStep ==
    /\ subOps < MaxSubOps
    /\ subOps' = subOps + 1
    /\ UNCHANGED <<day, jobs>>
    /\ UNCHANGED <<tokenVars, eventVars, hookVars, payVars, pollVars, raceVars, cliVars, readVars>>

\* the history of the status: a step that changes it starts a new stay
Stamped ==
    statusSince' = IF sub'.status # sub.status THEN day ELSE statusSince

\* the fields Subscription.Activate leaves
Activated(s, gateway, period) ==
    [s EXCEPT !.status = "active", !.gateway = gateway,
              !.periodStart = period.start, !.periodEnd = period.end]

Activate(gateway, period) ==
    /\ SubStep
    /\ sub' = Activated(sub, gateway, period)
    /\ Stamped
    /\ UNCHANGED payments

MarkPastDue ==
    /\ SubStep
    /\ sub' = [sub EXCEPT !.status = "past_due"]
    /\ Stamped
    /\ UNCHANGED payments

CanceledAtPeriodEnd(s, atPeriodEnd, t) ==
    [s EXCEPT !.cancelAtPeriodEnd = TRUE, !.cancelReason = TRUE]

\* the fields Subscription.Cancel leaves, called at time t
Canceled(s, atPeriodEnd, t) ==
    IF atPeriodEnd
    THEN [s EXCEPT !.cancelAtPeriodEnd = TRUE, !.cancelReason = TRUE]
    ELSE [s EXCEPT !.status = "canceled", !.canceledAt = t,
                   !.cancelReason = TRUE]

CancelImmediately(atPeriodEnd) ==
    /\ SubStep
    /\ sub' = Canceled(sub, FALSE, day)
    /\ Stamped
    /\ UNCHANGED payments

Cancel(atPeriodEnd) ==
    /\ SubStep
    /\ sub' = Canceled(sub, atPeriodEnd, day)
    /\ Stamped
    /\ UNCHANGED payments

Expire ==
    /\ SubStep
    /\ sub' = [sub EXCEPT !.status = "expired"]
    /\ Stamped
    /\ UNCHANGED payments

\* the PaymentHistory row handlePaymentReceived builds for the event
PaymentRow(s, paymentID) ==
    [gatewayPaymentID |-> paymentID, gateway |-> s.gateway,
     status |-> "succeeded", periodStart |-> s.periodStart,
     periodEnd |-> s.periodEnd, paidAt |-> day]

\* SubscriptionService.handlePaymentReceived for an event with this PaymentID
handlePaymentReceived(paymentID) ==
    /\ SubStep
    /\ LET renewed == [sub EXCEPT !.periodStart = day,
                                  !.periodEnd = day + MonthDays,
                                  !.status = "active"]
       IN  /\ payments' = Append(payments, PaymentRow(renewed, paymentID))
           /\ sub' = renewed
    /\ Stamped

DayTick ==
    /\ day < MaxDays
    /\ day' = day + 1
    /\ UNCHANGED <<sub, payments, subOps, statusSince, jobs>>
    /\ UNCHANGED <<tokenVars, eventVars, hookVars, payVars, pollVars, raceVars, cliVars, readVars>>

(***************************************************************************)
(* The periodic jobs over the subscriptions: the daily trial check         *)
(* (CheckExpiredTrials of docs/FLOWS.md, SubscriptionService.ExpireTrials) *)
(* and the reconciliation of past_due subscriptions, whose grace period    *)
(* docs/EXECUTIVE_SUMMARY.md gives.                                        *)
(***************************************************************************)

MaxJobRuns == 2         \* runs of the periodic jobs per behaviour
MaxWaits == 2           \* waits between operations and runs per behaviour

GracePeriodDays == 7    \* 7 dias sem pagamento -> canceled

\* the payment events that arrive between the runs; the jobs do not read
\* the ledger, so one gateway payment id stands for all
JobPayments == {1}

\* how long a wait lasts, in days
Waits == {1, GracePeriodDays, TrialLength}

NoRun == [job |-> "none", at |-> None, before |-> "none", after |-> "none"]

\* what a run of a job records
JobRun(job, before, after, called) ==
    [runs |-> jobs.runs + 1, waits |-> jobs.waits,
     cancelRecurrence |-> jobs.cancelRecurrence + (IF called THEN 1 ELSE 0),
     last |-> [job |-> job, at |-> day, before |-> before, after |-> after]]

\* the step every job shares; jobs are no Subscription operations
JobStep ==
    /\ jobs.runs < MaxJobRuns
    /\ UNCHANGED <<day, payments, subOps>>
    /\ UNCHANGED <<tokenVars, eventVars, hookVars, payVars, pollVars, raceVars, cliVars, readVars>>

TrialingSelected(s, t) == s.status = "trialing"

\* FindExpiredTrials: status = 'trialing' AND trial_end_date < NOW()
FindExpiredTrials(s, t) == s.status = "trialing" /\ s.trialEnd < t

\* CheckExpiredTrials: every subscription found is set to expired
CheckExpiredTrials ==
    /\ JobStep
    /\ sub' = IF FindExpiredTrials(sub, day)
              THEN [sub EXCEPT !.status = "expired"]
              ELSE sub
    /\ Stamped
    /\ jobs' = JobRun("CheckExpiredTrials", sub.status, sub'.status, FALSE)

\* the subscriptions the reconciliation cancels: past_due for more than the
\* grace period
PastGrace(s, since, t) ==
    s.status = "past_due" /\ t - since > GracePeriodDays

\* the reconciliation sweep: it cancels what it finds at once and has the
\* gateway cancel the recurrence
ReconcilePastDue ==
    /\ JobStep
    /\ LET found == PastGrace(sub, statusSince, day)
       IN  /\ sub' = IF found THEN Canceled(sub, FALSE, day) ELSE sub
           /\ Stamped
           /\ jobs' = JobRun("ReconcilePastDue", sub.status, sub'.status, found)

\* the clock between the operations and the runs of the jobs
DaysPass(d) ==
    /\ jobs.waits < MaxWaits
    /\ day' = day + d
    /\ jobs' = [jobs EXCEPT !.waits = jobs.waits + 1]
    /\ UNCHANGED <<sub, payments, subOps, statusSince>>
    /\ UNCHANGED <<tokenVars, eventVars, hookVars, payVars, pollVars, raceVars, cliVars, readVars>>

SubInit ==
    /\ day = 0
    /\ sub = NewTrialSubscription(0, TrialLength)
    /\ payments = <<>>
    /\ subOps = 0
    /\ statusSince = 0
    /\ jobs = [runs |-> 0, waits |-> 0, cancelRecurrence |-> 0, last |-> NoRun]

(***************************************************************************)
(* The webhook handlers: efi.WebhookHandler (adapters/efi/webhooks.go) and *)
(* handlers.WebhookHandler with efi.Client.ParseWebhookEvent, the one      *)
(* mounted in cmd/api/main.go.                                             *)
(*                                                                         *)
(* Neither handler keeps state between requests, so the handler's          *)
(* configuration is an input of each delivery.  A body is what             *)
(* json.Unmarshal makes of it; HMAC-SHA256 is a function of key and body   *)
(* that has no collisions.                                                 *)
(***************************************************************************)

MaxDeliveries == 2      \* requests delivered per behaviour
MaxPix == 2             \* entries of the "pix" array of a payload

PixIDs == {1, 2}        \* endToEndId values
RecIDs == {1}           \* idRec values
NoEvent == 0            \* no entry / no recurrence in the payload

NoSecret == ""
Secrets == {NoSecret, "s1"}     \* what WEBHOOK_SECRET may hold
OtherKey == "s2"                \* a key that is not the handler's

\* the arrays of distinct PIX entries of length 0..MaxPix
PixArrays ==
    {p \in UNION {[1..n -> PixIDs] : n \in 0..MaxPix} :
        \A i, j \in DOMAIN p : p[i] = p[j] => i = j}

InvalidJSON == [valid |-> FALSE, pix |-> <<>>, rec |-> NoEvent]
EmptyPayload == [valid |-> TRUE, pix |-> <<>>, rec |-> NoEvent]

Bodies ==
    {InvalidJSON} \cup [valid : {TRUE}, pix : PixArrays, rec : {NoEvent} \cup RecIDs]

NoSignature == <<>>

\* hex(HMAC-SHA256(key, body))
Hmac(key, body) == <<key, body>>

\* how the sender signed: not at all, with the handler's secret over this
\* body, with another key, or with the handler's secret over another body
SignatureKinds == {"missing", "valid", "wrong_key", "wrong_body"}

\* the signature header of a request of that kind
SignatureSent(kind, secret, body) ==
    CASE kind = "missing" -> NoSignature
      [] kind = "valid" -> Hmac(secret, body)
      [] kind = "wrong_key" -> Hmac(OtherKey, body)
      [] kind = "wrong_body" ->
            Hmac(secret, IF body = InvalidJSON THEN EmptyPayload ELSE InvalidJSON)

\* a request: its method, whether its body can be read, the body and the
\* signature kind; the body of a request that is not read does not matter
Requests ==
    {r \in [method : {"POST", "GET"}, readOk : BOOLEAN, body : Bodies,
            sigKind : SignatureKinds] :
        \/ r.method = "POST" /\ r.readOk
        \/ r.body = InvalidJSON /\ (r.method = "POST" \/ r.readOk)}

\* the requests a handler with that secret can be sent: a sender that
\* shares no secret with the handler sends no signature or one of its own
RequestsTo(secret) ==
    {r \in Requests :
        secret = NoSecret => r.sigKind \in {"missing", "wrong_key"}}

\* efi.WebhookHandler's fields: the secret, the test switch, and whether
\* the three callbacks are set (NewWebhookHandler sets none)
EfiConfigs == [secret : Secrets, skip : BOOLEAN, callbacks : BOOLEAN]

\* the callbacks a delivery may invoke
Callbacks ==
    ({"OnPixPayment"} \X PixIDs) \cup ({"OnRecurrenceUpdate"} \X RecIDs)
    \cup ({"eventHandler"} \X (PixIDs \cup {NoEvent}))

NoDelivery ==
    [handler |-> "none", secret |-> NoSecret, skip |-> FALSE,
     method |-> "none", readOk |-> FALSE, body |-> InvalidJSON,
     sigKind |-> "missing", status |-> 0, parsed |-> FALSE,
     dispatched |-> <<>>, onError |-> FALSE, failed |-> FALSE,
     reply |-> "none"]

SignatureAccepted(secret, body, signature) == signature # NoSignature

\* WebhookHandler.validateSignature with h.WebhookSecret = secret
validateSignature(secret, body, signature) ==
    IF signature = NoSignature THEN FALSE ELSE signature = Hmac(secret, body)

\* the callback invocations processEvent makes if none fails: one per PIX
\* entry in payload order, then the recurrence; a nil callback is skipped
Planned(cfg, event) ==
    IF ~cfg.callbacks THEN <<>>
    ELSE [i \in DOMAIN event.pix |-> <<"OnPixPayment", event.pix[i]>>]
         \o (IF event.rec # NoEvent
             THEN << <<"OnRecurrenceUpdate", event.rec>> >>
             ELSE <<>>)

\* processEvent when the errAt-th invocation returns an error (none does
\* when errAt is 0): it returns on the first error
processEvent(cfg, event, errAt) ==
    LET plan == Planned(cfg, event)
        failed == errAt \in DOMAIN plan
    IN  [dispatched |-> IF failed THEN SubSeq(plan, 1, errAt) ELSE plan,
         err |-> failed]

\* the answer of a delivery that stops before any callback: http.Error
\* writes the status and a plain-text message
Rejected(status, parsed) ==
    [status |-> status, parsed |-> parsed, dispatched |-> <<>>,
     onError |-> FALSE, failed |-> FALSE, reply |-> "error text"]

AnyMethodAllowed(method) == TRUE

\* the first test of both handlers: only POST goes on
MethodAllowed(method) == method = "POST"

AcknowledgeUnlessError(err) == IF err THEN 500 ELSE 200

\* the status written after the callbacks have run, err telling whether one
\* of them returned an error: the error is logged and the status is 200
Acknowledge(err) == 200

RequiredWheneverSecret(cfg) == cfg.secret # NoSecret

\* whether HandleEfiWebhook looks at the signature: a secret is set and
\* the test switch is off
SignatureRequired(cfg) == cfg.secret # NoSecret /\ ~cfg.skip

\* efi.WebhookHandler.HandleEfiWebhook as a function of handler and request
EfiAnswer(cfg, req, errAt) ==
    IF ~MethodAllowed(req.method) THEN Rejected(405, FALSE)
    ELSE IF ~req.readOk THEN Rejected(400, FALSE)
    ELSE IF /\ SignatureRequired(cfg)
            /\ ~validateSignature(cfg.secret, req.body,
                                  SignatureSent(req.sigKind, cfg.secret, req.body))
         THEN Rejected(401, FALSE)
    ELSE IF ~req.body.valid THEN Rejected(400, TRUE)
    ELSE LET done == processEvent(cfg, req.body, errAt)
         IN  [status |-> Acknowledge(done.err), parsed |-> TRUE,
              dispatched |-> done.dispatched,
              onError |-> done.err /\ cfg.callbacks, failed |-> done.err,
              reply |-> "ok"]

\* the invocations of a delivery at which a callback may fail; 0: none does
ErrorPoints(cfg, req) ==
    {0} \cup DOMAIN EfiAnswer(cfg, req, 0).dispatched

ParseChecksSignature(payload, signature) ==
    IF ~payload.valid \/ signature = NoSignature
    THEN [err |-> TRUE, type |-> "none", data |-> NoEvent]
    ELSE [err |-> FALSE, type |-> "pix",
          data |-> IF Len(payload.pix) > 0 THEN payload.pix[1] ELSE NoEvent]

\* efi.Client.ParseWebhookEvent: the signature is not looked at, and only
\* the first PIX entry reaches the event
ParseWebhookEvent(payload, signature) ==
    IF ~payload.valid
    THEN [err |-> TRUE, type |-> "none", data |-> NoEvent]
    ELSE [err |-> FALSE, type |-> "pix",
          data |-> IF Len(payload.pix) > 0 THEN payload.pix[1] ELSE NoEvent]

\* handlers.WebhookHandler.HandleEfiWebhook; registered: the event types
\* that have a handler; handlerErr: the handler returns an error
HandlersAnswer(secret, registered, req, handlerErr) ==
    IF ~MethodAllowed(req.method) THEN Rejected(405, FALSE)
    ELSE IF ~req.readOk THEN Rejected(400, FALSE)
    ELSE LET event == ParseWebhookEvent(req.body,
                          SignatureSent(req.sigKind, secret, req.body))
         IN  IF event.err THEN Rejected(400, TRUE)
             ELSE LET routed == event.type \in registered
                  IN  [status |-> Acknowledge(routed /\ handlerErr),
                       parsed |-> TRUE,
                       dispatched |-> IF routed
                                      THEN << <<"eventHandler", event.data>> >>
                                      ELSE <<>>,
                       onError |-> FALSE, failed |-> routed /\ handlerErr,
                       reply |-> "received"]

\* whether the registered handler of a delivery may fail: only if one runs
HandlerErrors(secret, registered, req) ==
    {FALSE} \cup {Len(HandlersAnswer(secret, registered, req, FALSE).dispatched) > 0}

\* how often callback c occurs in a sequence of invocations
Occurrences(c, s) == Cardinality({i \in DOMAIN s : s[i] = c})

\* the effects of one delivery: the callbacks run, the answer is written
Deliver(handler, secret, skip, req, answer) ==
    /\ deliveries' = deliveries + 1
    /\ invoked' = [c \in Callbacks |->
                       invoked[c] + Occurrences(c, answer.dispatched)]
    /\ last' = [handler |-> handler, secret |-> secret, skip |-> skip,
                method |-> req.method, readOk |-> req.readOk,
                body |-> req.body, sigKind |-> req.sigKind,
                status |-> answer.status, parsed |-> answer.parsed,
                dispatched |-> answer.dispatched, onError |-> answer.onError,
                failed |-> answer.failed, reply |-> answer.reply]
    /\ UNCHANGED serve

HandleEfiWebhook(cfg, req, errAt) ==
    /\ deliveries < MaxDeliveries
    /\ Deliver("efi", cfg.secret, cfg.skip, req, EfiAnswer(cfg, req, errAt))
    /\ UNCHANGED <<tokenVars, eventVars, subVars, payVars, pollVars, raceVars, cliVars, readVars>>

HandlersHandleEfiWebhook(secret, registered, req, handlerErr) ==
    /\ deliveries < MaxDeliveries
    /\ Deliver("handlers", secret, FALSE, req,
               HandlersAnswer(secret, registered, req, handlerErr))
    /\ UNCHANGED <<tokenVars, eventVars, subVars, payVars, pollVars, raceVars, cliVars, readVars>>

(***************************************************************************)
(* One request served step by step: the goroutine of the HTTP server runs  *)
(* the handler, which calls the callbacks itself, one after the other, and *)
(* writes the response after the last of them has returned.  How long a    *)
(* callback takes is up to the callback.                                   *)
(***************************************************************************)

NotServing == [pc |-> "idle"]

\* the handler runs up to its first callback, or to the response if the
\* request is rejected or has no callback to call
Serve(handler, req, answer) ==
    /\ serve.pc = "idle"
    /\ serve' = [pc |-> IF Len(answer.dispatched) = 0 THEN "respond"
                                                      ELSE "callback",
                 handler |-> handler, method |-> req.method, body |-> req.body,
                 plan |-> answer.dispatched,
                 at |-> IF Len(answer.dispatched) = 0 THEN 0 ELSE 1,
                 status |-> answer.status, onError |-> 0]
    /\ UNCHANGED <<invoked, last, deliveries>>
    /\ UNCHANGED <<tokenVars, eventVars, subVars, payVars, pollVars, raceVars, cliVars, readVars>>

ServeEfi(cfg, req) == Serve("efi", req, EfiAnswer(cfg, req, 0))

ServeHandlers(secret, registered, req) ==
    Serve("handlers", req, HandlersAnswer(secret, registered, req, FALSE))

LoopIgnoresError(err, at, plan) == at < Len(plan)

\* processEvent after the at-th callback of plan has returned: it goes on
\* to the next one unless the callback returned an error or was the last
LoopGoesOn(err, at, plan) == ~err /\ at < Len(plan)

\* the callback the handler is waiting for returns, with an error or not:
\* the handler goes on to the next callback or to the response (the efi
\* handler calls OnError first if processEvent returned an error; onError
\* counts these calls)
CallbackReturns(err) ==
    /\ serve.pc = "callback"
    /\ serve' = IF LoopGoesOn(err, serve.at, serve.plan)
                THEN [serve EXCEPT !.at = serve.at + 1]
                ELSE [serve EXCEPT !.pc = "respond",
                                   !.status = Acknowledge(err),
                                   !.onError = IF err /\ serve.handler = "efi"
                                               THEN serve.onError + 1
                                               ELSE serve.onError]
    /\ UNCHANGED <<invoked, last, deliveries>>
    /\ UNCHANGED <<tokenVars, eventVars, subVars, payVars, pollVars, raceVars, cliVars, readVars>>

\* w.WriteHeader and the body: the handler returns; what it served stays
\* on record until the next request
WriteResponse ==
    /\ serve.pc = "respond"
    /\ serve' = [serve EXCEPT !.pc = "idle"]
    /\ UNCHANGED <<invoked, last, deliveries>>
    /\ UNCHANGED <<tokenVars, eventVars, subVars, payVars, pollVars, raceVars, cliVars, readVars>>

HookInit ==
    /\ invoked = [c \in Callbacks |-> 0]
    /\ last = NoDelivery
    /\ deliveries = 0
    /\ serve = NotServing

(***************************************************************************)
(* domain.PaymentHistory (internal/domain/plan.go)                         *)
(*                                                                         *)
(* One record of the payment history.  Its methods are plain setters.      *)
(***************************************************************************)

MaxPayOps == 4          \* PaymentHistory methods called per behaviour

NewPaymentHistory ==
    [status |-> "pending", paidAt |-> None, hasFailure |-> FALSE]

\* the step every method shares: it is counted, the clock stands
PayStep ==
    /\ payOps < MaxPayOps
    /\ payOps' = payOps + 1
    /\ UNCHANGED <<tokenVars, eventVars, subVars, hookVars, pollVars, raceVars, cliVars, readVars>>

PayMarkProcessing ==
    /\ PayStep
    /\ pay' = [pay EXCEPT !.status = "processing"]

Succeed ==
    /\ PayStep
    /\ pay' = [pay EXCEPT !.status = "succeeded", !.paidAt = day]

Fail ==
    /\ PayStep
    /\ pay' = [pay EXCEPT !.status = "failed", !.hasFailure = TRUE]

Refund ==
    /\ PayStep
    /\ pay' = [pay EXCEPT !.status = "refunded"]

PayInit ==
    /\ pay = NewPaymentHistory
    /\ payOps = 0

(***************************************************************************)
(* Client.WaitForRecurrenceApproval (internal/adapters/efi/client.go)      *)
(*                                                                         *)
(* One call.  Time is counted in ticks from the call; it passes while      *)
(* GetRecurrence is under way and while the select waits.  The clock of    *)
(* the model stops at Horizon, after every deadline, except that a timer   *)
(* that is running is always reached.                                      *)
(***************************************************************************)

MaxTimeout == 2         \* the longest timeout, in ticks
MaxPollInterval == 1    \* the longest pollInterval, in ticks

Timeouts == (0 - 1) .. MaxTimeout
PollIntervals == 0 .. MaxPollInterval
Horizon == MaxTimeout + 1

\* what GetRecurrence answers: an error, or a recurrence in this status
PollAnswers == {"error", "approved", "rejected", "cancelled", "expired", "created"}

OnlyApprovedFinal == {"approved"}

\* the recurrence statuses that end the loop
FinalStatuses == {"approved", "rejected", "cancelled", "expired"}

\* what the call returns with a non-nil error
ErrorResults ==
    {"get error", "rejected", "cancelled", "expired", "ctx error", "timeout"}

NotAfter(t, deadline) == t <= deadline

\* time.Time.Before
Before(t, deadline) == t < deadline

\* the call: deadline := time.Now().Add(timeout)
WaitForRecurrenceApproval(pollInterval, timeout) ==
    /\ wait.pc = "idle"
    /\ wait' = [wait EXCEPT !.pc = "loop", !.timeout = timeout,
                            !.pollInterval = pollInterval,
                            !.deadline = wait.t + timeout]
    /\ UNCHANGED <<tokenVars, eventVars, subVars, hookVars, payVars, raceVars, cliVars, readVars>>

\* for time.Now().Before(deadline): GetRecurrence is called, or the loop
\* ends and the timeout error is returned
LoopTest ==
    /\ wait.pc = "loop"
    /\ wait' = IF Before(wait.t, wait.deadline)
               THEN [wait EXCEPT !.pc = "poll", !.polled = TRUE]
               ELSE [wait EXCEPT !.pc = "done", !.result = "timeout"]
    /\ UNCHANGED <<tokenVars, eventVars, subVars, hookVars, payVars, raceVars, cliVars, readVars>>

\* GetRecurrence returns and the switch is taken; a request whose context
\* is cancelled fails
GetRecurrenceReturns(answer) ==
    /\ wait.pc = "poll"
    /\ wait.cancelled => answer = "error"
    /\ wait' = IF answer = "error"
               THEN [wait EXCEPT !.pc = "done", !.result = "get error"]
               ELSE IF answer \in FinalStatuses
               THEN [wait EXCEPT !.pc = "done", !.result = answer]
               ELSE [wait EXCEPT !.pc = "select",
                                 !.wakeAt = wait.t + wait.pollInterval,
                                 !.lateWaits = wait.lateWaits +
                                     (IF wait.t >= wait.deadline THEN 1 ELSE 0)]
    /\ UNCHANGED <<tokenVars, eventVars, subVars, hookVars, payVars, raceVars, cliVars, readVars>>

\* case <-ctx.Done(): return nil, ctx.Err()
SelectDone ==
    /\ wait.pc = "select"
    /\ wait.cancelled
    /\ wait' = [wait EXCEPT !.pc = "done", !.result = "ctx error"]
    /\ UNCHANGED <<tokenVars, eventVars, subVars, hookVars, payVars, raceVars, cliVars, readVars>>

\* case <-time.After(pollInterval): the timer has fired; when both cases
\* are ready select takes either
SelectTimer ==
    /\ wait.pc = "select"
    /\ wait.t >= wait.wakeAt
    /\ wait' = [wait EXCEPT !.pc = "loop"]
    /\ UNCHANGED <<tokenVars, eventVars, subVars, hookVars, payVars, raceVars, cliVars, readVars>>

\* the caller's context is cancelled (or its deadline passes)
CancelContext ==
    /\ wait.pc # "done"
    /\ ~wait.cancelled
    /\ wait' = [wait EXCEPT !.cancelled = TRUE]
    /\ UNCHANGED <<tokenVars, eventVars, subVars, hookVars, payVars, raceVars, cliVars, readVars>>

\* time passes during the call
WaitTick ==
    /\ wait.pc \notin {"idle", "done"}
    /\ \/ wait.t < Horizon
       \/ wait.pc = "select" /\ wait.t < wait.wakeAt
    /\ wait' = [wait EXCEPT !.t = wait.t + 1]
    /\ UNCHANGED <<tokenVars, eventVars, subVars, hookVars, payVars, raceVars, cliVars, readVars>>

PollInit ==
    wait = [pc |-> "idle", t |-> 0, timeout |-> 0, pollInterval |-> 0,
            deadline |-> 0, wakeAt |-> 0, cancelled |-> FALSE,
            polled |-> FALSE, lateWaits |-> 0, result |-> "none"]

(***************************************************************************)
(* Two service calls on one stored Subscription, each in its goroutine: a  *)
(* renewal (Activate) and an explicit Cancel.  As in the flows of          *)
(* docs/FLOWS.md a call finds the subscription, changes its copy and has   *)
(* the repository update the row; no lock or transaction surrounds the     *)
(* steps.                                                                  *)
(***************************************************************************)

Idle == [pc |-> "idle", found |-> "none"]

\* the renewal finds the subscription
RenewFind(gateway, period) ==
    /\ race.renew.pc = "idle"
    /\ race' = [race EXCEPT !.renew = [pc |-> "found", found |-> race.stored],
                            !.gateway = gateway, !.period = period]
    /\ UNCHANGED <<tokenVars, eventVars, subVars, hookVars, payVars, pollVars, cliVars, readVars>>

\* the renewal activates its copy and updates the row
RenewUpdate ==
    /\ race.renew.pc = "found"
    /\ race' = [race EXCEPT
                   !.renew.pc = "done",
                   !.stored = Activated(race.renew.found, race.gateway,
                                        race.period)]
    /\ UNCHANGED <<tokenVars, eventVars, subVars, hookVars, payVars, pollVars, cliVars, readVars>>

\* the cancellation finds the subscription
CancelFind(atPeriodEnd) ==
    /\ race.cancel.pc = "idle"
    /\ race' = [race EXCEPT !.cancel = [pc |-> "found", found |-> race.stored],
                            !.atPeriodEnd = atPeriodEnd]
    /\ UNCHANGED <<tokenVars, eventVars, subVars, hookVars, payVars, pollVars, cliVars, readVars>>

\* the cancellation cancels its copy and updates the row, or (columns, the
\* UPDATE of the cancellation flow) only the columns a cancellation sets
CancelUpdate(columns) ==
    /\ race.cancel.pc = "found"
    /\ race' = [race EXCEPT
                   !.cancel.pc = "done", !.now = day,
                   !.stored = Canceled(IF columns THEN race.stored
                                                  ELSE race.cancel.found,
                                       race.atPeriodEnd, day)]
    /\ UNCHANGED <<tokenVars, eventVars, subVars, hookVars, payVars, pollVars, cliVars, readVars>>

RaceInit ==
    race = [stored |-> NewTrialSubscription(0, TrialLength),
            renew |-> Idle, cancel |-> Idle,
            gateway |-> NoGateway, period |-> [start |-> 0, end |-> 0],
            atPeriodEnd |-> FALSE, now |-> 0]

(***************************************************************************)
(* efi.Client's calls and the errors they return (client.go, auth.go and   *)
(* the error helpers of the efi package).                                  *)
(*                                                                         *)
(* An error is the chain errors.Unwrap walks, outermost first; nil is the  *)
(* empty chain.  fmt.Errorf with %w puts a node in front of the chain it   *)
(* wraps; sentinels, *APIError and the errors of net/http and              *)
(* encoding/json end a chain.                                              *)
(***************************************************************************)

Nil == <<>>

Sentinels ==
    {"ErrNotFound", "ErrUnauthorized", "ErrInvalidRequest",
     "ErrRecurrenceRejected", "ErrRecurrenceCancelled", "ErrRecurrenceExpired",
     "ErrDuplicateRecurrence", "ErrRateLimited", "ErrServerError"}

ErrCodeRecurrenceExists == "recorrencia_duplicada"

\* the nodes of a chain
Text == [kind |-> "text", name |-> "", status |-> 0, nome |-> ""]
TransportErr == [kind |-> "net", name |-> "", status |-> 0, nome |-> ""]
DecodeErr == [kind |-> "json", name |-> "", status |-> 0, nome |-> ""]
Sentinel(name) == [kind |-> "sentinel", name |-> name, status |-> 0, nome |-> ""]
APIError(status, nome) ==
    [kind |-> "api", name |-> "", status |-> status, nome |-> nome]

\* fmt.Errorf("...: %w", err) and fmt.Errorf without %w
Wrap(err) == <<Text>> \o err
Errorf == <<Text>>

\* errors.Is(err, sentinel)
Is(err, name) == \E i \in DOMAIN err : err[i] = Sentinel(name)

\* errors.As(err, &apiErr): whether it finds an *APIError, and the first
HasAPIError(err) == \E i \in DOMAIN err : err[i].kind = "api"
AsAPIError(err) ==
    err[CHOOSE i \in DOMAIN err :
            /\ err[i].kind = "api"
            /\ \A j \in DOMAIN err : err[j].kind = "api" => i <= j]

IsNotFoundUnwrapped(err) ==
    err # Nil /\ (err[1] = Sentinel("ErrNotFound")
                    \/ (err[1].kind = "api" /\ err[1].status = 404))

IsNotFound(err) ==
    IF Is(err, "ErrNotFound") THEN TRUE
    ELSE IF HasAPIError(err) THEN AsAPIError(err).status = 404
    ELSE FALSE

IsUnauthorized(err) ==
    IF Is(err, "ErrUnauthorized") THEN TRUE
    ELSE IF HasAPIError(err) THEN AsAPIError(err).status = 401
    ELSE FALSE

IsRateLimited(err) ==
    IF Is(err, "ErrRateLimited") THEN TRUE
    ELSE IF HasAPIError(err) THEN AsAPIError(err).status = 429
    ELSE FALSE

IsServerError(err) ==
    IF Is(err, "ErrServerError") THEN TRUE
    ELSE IF HasAPIError(err) THEN AsAPIError(err).status >= 500
    ELSE FALSE

IsDuplicateRecurrence(err) ==
    IF Is(err, "ErrDuplicateRecurrence") THEN TRUE
    ELSE IF HasAPIError(err)
         THEN \/ AsAPIError(err).nome = ErrCodeRecurrenceExists
              \/ AsAPIError(err).status = 409
    ELSE FALSE

\* ClassifyError: the sentinel is wrapped, the APIError only printed
ClassifyError(err) ==
    IF ~HasAPIError(err) THEN err
    ELSE LET apiErr == AsAPIError(err) IN
         CASE apiErr.status = 404 -> Wrap(<<Sentinel("ErrNotFound")>>)
           [] apiErr.status = 401 -> Wrap(<<Sentinel("ErrUnauthorized")>>)
           [] apiErr.status = 429 -> Wrap(<<Sentinel("ErrRateLimited")>>)
           [] apiErr.status = 409 -> Wrap(<<Sentinel("ErrDuplicateRecurrence")>>)
           [] OTHER ->
                IF apiErr.status >= 500
                THEN Wrap(<<Sentinel("ErrServerError")>>)
                ELSE IF apiErr.nome = ErrCodeRecurrenceExists
                THEN Wrap(<<Sentinel("ErrDuplicateRecurrence")>>)
                ELSE err

\* what the gateway answers: an HTTP status and a body, which is not JSON
\* or an object with a "status" (0 when absent) and a "nome"
StatusCodes == {200, 400, 401, 404, 409, 429, 500, 503}
NotJSON == [json |-> FALSE, status |-> 0, nome |-> ""]
ResponseBodies ==
    {NotJSON} \cup [json : {TRUE}, status : {0, 400, 404, 409, 500},
                    nome : {"", ErrCodeRecurrenceExists}]
Responses == [code : StatusCodes, body : ResponseBodies]
NoResponse == [code |-> 0, body |-> NotJSON]

\* the error doRequest returns once the response has been read: a 401 is
\* a plain error, another status from 400 on is the APIError decoded from
\* the body if the body decodes, a plain error if not
DoRequestError(resp) ==
    IF resp.code = 401 THEN Errorf
    ELSE IF resp.code >= 400
         THEN IF resp.body.json
              THEN <<APIError(resp.body.status, resp.body.nome)>>
              ELSE Errorf
    ELSE Nil

\* the error refresh returns for an answer of the token endpoint that is
\* not a usable token
RefreshError(kind) ==
    CASE kind = "transport_error" -> Wrap(<<TransportErr>>)
      [] kind = "non200" -> Errorf
      [] kind = "bad_json" -> Wrap(<<DecodeErr>>)

\* CreateRecurrenceRequest: which of the required fields are filled in
RecurrenceRequests ==
    [contract : BOOLEAN, cpf : BOOLEAN, cnpj : BOOLEAN, amount : BOOLEAN,
     periodicity : BOOLEAN]
NoRequest ==
    [contract |-> FALSE, cpf |-> FALSE, cnpj |-> FALSE, amount |-> FALSE,
     periodicity |-> FALSE]

ValidWithoutTaxID(req) == req.contract /\ req.amount /\ req.periodicity

\* the checks CreateRecurrence makes before anything else
ValidRecurrenceRequest(req) ==
    /\ req.contract
    /\ req.cpf \/ req.cnpj
    /\ req.amount
    /\ req.periodicity

\* how a call through doRequest may go: GetToken fails, the request fails
\* in transport, or a response comes back
CallOutcomes ==
    [at : {"token"}, kind : {"transport_error", "non200", "bad_json"},
     resp : {NoResponse}]
    \cup [at : {"transport"}, kind : {"none"}, resp : {NoResponse}]
    \cup [at : {"response"}, kind : {"none"}, resp : Responses]

\* a request that fails validation meets no outcome
OutcomesFor(req) ==
    IF ValidRecurrenceRequest(req) THEN CallOutcomes
    ELSE {[at |-> "none", kind |-> "none", resp |-> NoResponse]}

\* the record of a call before the call fills it in
NoClientCall ==
    [op |-> "none", req |-> NoRequest, at |-> "none", kind |-> "none",
     resp |-> NoResponse, err |-> Nil, tokenCalls |-> 0, sent |-> 0,
     arg |-> Nil]

\* the error of doRequest for an outcome
DoRequestOutcomeError(o) ==
    CASE o.at = "token" -> RefreshError(o.kind)
      [] o.at = "transport" -> Wrap(<<TransportErr>>)
      [] o.at = "response" -> DoRequestError(o.resp)
      [] OTHER -> Nil

\* what CreateRecurrence returns once doRequest has: the error of
\* doRequest wrapped, or the error of decoding the response body
CreateRecurrenceError(o) ==
    IF DoRequestOutcomeError(o) # Nil THEN Wrap(DoRequestOutcomeError(o))
    ELSE IF o.at = "response" /\ ~o.resp.body.json THEN Wrap(<<DecodeErr>>)
    ELSE Nil

\* Client.CreateRecurrence: the request is validated, then sent through
\* doRequest, whose first statement is GetToken
CreateRecurrence(req, o) ==
    /\ cli' = IF ~ValidRecurrenceRequest(req)
              THEN [NoClientCall EXCEPT !.op = "CreateRecurrence",
                                        !.req = req, !.err = Errorf]
              ELSE [op |-> "CreateRecurrence", req |-> req, at |-> o.at,
                    kind |-> o.kind, resp |-> o.resp,
                    err |-> CreateRecurrenceError(o),
                    tokenCalls |-> 1,
                    sent |-> IF o.at = "token" THEN 0 ELSE 1,
                    arg |-> Nil]
    /\ UNCHANGED <<tokenVars, eventVars, subVars, hookVars, payVars, pollVars,
                   raceVars, readVars>>

\* TokenManager.GetToken answered by the token endpoint with no usable token
GetTokenFails(kind) ==
    /\ cli' = [NoClientCall EXCEPT !.op = "GetToken", !.at = "token",
                                   !.kind = kind,
                                   !.err = RefreshError(kind),
                                   !.tokenCalls = 1]
    /\ UNCHANGED <<tokenVars, eventVars, subVars, hookVars, payVars, pollVars,
                   raceVars, readVars>>

\* the caller holds a sentinel or an APIError of its own making, wrapped
\* or not (the cases of the package's tests), with or without a Nome
CallerErrors ==
    {Nil, Errorf}
    \cup {<<Sentinel(n)>> : n \in Sentinels}
    \cup {Wrap(<<Sentinel(n)>>) : n \in Sentinels}
    \cup {<<APIError(st, "")>> : st \in {400, 401, 404, 409, 429, 500}}
    \cup {<<APIError(st, ErrCodeRecurrenceExists)>> : st \in {400, 404, 409}}
    \cup {Wrap(<<APIError(st, "")>>) : st \in {400, 404}}

CallerHolds(err) ==
    /\ cli' = [NoClientCall EXCEPT !.op = "caller", !.err = err]
    /\ UNCHANGED <<tokenVars, eventVars, subVars, hookVars, payVars, pollVars,
                   raceVars, readVars>>

\* the caller passes the error it holds through ClassifyError; arg keeps
\* the error that was passed
Classify ==
    /\ cli.err # Nil
    /\ cli' = [cli EXCEPT !.op = "ClassifyError", !.arg = cli.err,
                          !.err = ClassifyError(cli.err)]
    /\ UNCHANGED <<tokenVars, eventVars, subVars, hookVars, payVars, pollVars,
                   raceVars, readVars>>

\* before any call there is no error to look at
ClientInit == cli = [op |-> "none", err |-> Nil]

(***************************************************************************)
(* readCloser (internal/adapters/efi/auth.go)                              *)
(*                                                                         *)
(* doAuthenticatedRequest sets req.Body to a readCloser value; whoever     *)
(* sends the request calls Read on req.Body, with buffers of its choosing. *)
(* A byte is a number; the body of length n is <<1, ..., n>>.              *)
(***************************************************************************)

MaxBody == 3            \* length of a request body
MaxReads == 5           \* Read calls per behaviour

BufSizes == 1..3        \* len(p) of a Read call

Min(a, b) == IF a < b THEN a ELSE b

\* no request body yet
NoBody == [attached |-> FALSE]

\* readCloser.Read(p) on the value r with len(p) = size: the bytes copied
\* into p, the error returned, and r.pos as the method leaves it
Read(r, size) ==
    IF r.pos >= Len(r.bytes)
    THEN [data |-> <<>>, err |-> "nil", pos |-> r.pos]
    ELSE LET n == Min(size, Len(r.bytes) - r.pos)
         IN  [data |-> SubSeq(r.bytes, r.pos + 1, r.pos + n), err |-> "nil",
              pos |-> r.pos + n]

\* Read has a value receiver: it works on a copy of the readCloser that
\* req.Body holds, so the r.pos it sets is gone when it returns
PosAfterRead(r, result) == r.pos

\* req.Body = readCloser{bytes: reqBody}
AttachBody(n) ==
    /\ ~rd.attached
    /\ rd' = [attached |-> TRUE, bytes |-> [i \in 1..n |-> i], pos |-> 0,
              out |-> <<>>, reads |-> 0, n |-> 0, err |-> "nil"]
    /\ UNCHANGED <<tokenVars, eventVars, subVars, hookVars, payVars, pollVars,
                   raceVars, cliVars>>

\* one Read call on req.Body; out collects the bytes the calls returned
BodyRead(size) ==
    /\ rd.attached
    /\ rd.reads < MaxReads
    /\ LET result == Read(rd, size)
       IN  rd' = [rd EXCEPT !.pos = PosAfterRead(rd, result),
                            !.out = rd.out \o result.data,
                            !.reads = rd.reads + 1,
                            !.n = Len(result.data),
                            !.err = result.err]
    /\ UNCHANGED <<tokenVars, eventVars, subVars, hookVars, payVars, pollVars,
                   raceVars, cliVars>>

ReadInit == rd = NoBody

(***************************************************************************)
(* Specifications: one per component, over all the variables.              *)
(***************************************************************************)

\* GetToken and Invalidate callers sharing one TokenManager
TokenNext ==
    \/ \E g \in Goroutines : GetToken(g)
    \/ \E g \in Goroutines : RefreshLock(g)
    \/ \E g \in Goroutines, ans \in TokenAnswers : RefreshResponse(g, ans)
    \/ \E g \in Goroutines : Invalidate(g)
    \/ Tick

\* GetToken and Invalidate callers contending for the lock at one instant
LockNext ==
    \/ \E g \in Goroutines : GetToken(g)
    \/ \E g \in Goroutines : RefreshLock(g)
    \/ \E g \in Goroutines, ans \in TokenAnswers : RefreshResponse(g, ans)
    \/ \E g \in Goroutines : Invalidate(g)

\* two goroutines making authenticated calls through one Client
Requesters == {1, 2}

RequestNext ==
    \/ \E g \in Requesters : GetToken(g)
    \/ \E g \in Requesters : DoRequest(g)
    \/ \E g \in Requesters : RefreshLock(g)
    \/ \E g \in Requesters, ans \in TokenAnswers : RefreshResponse(g, ans)
    \/ \E g \in Requesters, o \in ApiOutcomes : ApiRequest(g, o)
    \/ \E g \in Requesters : InvalidateOn401(g)
    \/ Tick

\* one WebhookEvent going through its status methods
EventNext ==
    \/ MarkProcessing
    \/ MarkProcessed
    \/ MarkFailed
    \/ MarkSkipped
    \/ MinuteTick

\* one WebhookEvent processed and retried
RetryNext ==
    \/ Process
    \/ ProcessSucceeds
    \/ ProcessFails
    \/ RetryFailed
    \/ \E late \in {0, 1} : RetryWait(late)
    \/ MinuteTick

\* one Subscription, its operations and the payment events applied to it
SubNext ==
    \/ \E g \in PaymentGateways, p \in Periods : Activate(g, p)
    \/ MarkPastDue
    \/ \E atPeriodEnd \in BOOLEAN : Cancel(atPeriodEnd)
    \/ Expire
    \/ \E id \in PaymentIDs : handlePaymentReceived(id)
    \/ DayTick

\* requests delivered to either webhook handler
WebhookNext ==
    \/ \E cfg \in EfiConfigs : \E req \in RequestsTo(cfg.secret) :
          \E errAt \in ErrorPoints(cfg, req) : HandleEfiWebhook(cfg, req, errAt)
    \/ \E secret \in Secrets, registered \in SUBSET {"pix"} :
          \E req \in RequestsTo(secret) :
          \E handlerErr \in HandlerErrors(secret, registered, req) :
              HandlersHandleEfiWebhook(secret, registered, req, handlerErr)

\* one request at a time served by either webhook handler
ServeNext ==
    \/ \E cfg \in EfiConfigs : \E req \in RequestsTo(cfg.secret) :
          ServeEfi(cfg, req)
    \/ \E secret \in Secrets, registered \in SUBSET {"pix"} :
          \E req \in RequestsTo(secret) : ServeHandlers(secret, registered, req)
    \/ \E err \in BOOLEAN : CallbackReturns(err)
    \/ WriteResponse

\* one Subscription, the payment events applied to it and the periodic jobs
JobsNext ==
    \/ \E id \in JobPayments : handlePaymentReceived(id)
    \/ MarkPastDue
    \/ \E atPeriodEnd \in BOOLEAN : Cancel(atPeriodEnd)
    \/ CheckExpiredTrials
    \/ ReconcilePastDue
    \/ \E d \in Waits : DaysPass(d)

\* one PaymentHistory record going through its status methods
PaymentNext ==
    \/ PayMarkProcessing
    \/ Succeed
    \/ Fail
    \/ Refund
    \/ DayTick

\* one call of WaitForRecurrenceApproval
WaitNext ==
    \/ \E p \in PollIntervals, d \in Timeouts : WaitForRecurrenceApproval(p, d)
    \/ LoopTest
    \/ \E answer \in PollAnswers : GetRecurrenceReturns(answer)
    \/ SelectDone
    \/ SelectTimer
    \/ CancelContext
    \/ WaitTick

\* calls of efi.Client and what the caller does with their errors
ClientNext ==
    \/ \E req \in RecurrenceRequests : \E o \in OutcomesFor(req) :
          CreateRecurrence(req, o)
    \/ \E kind \in {"transport_error", "non200", "bad_json"} :
          GetTokenFails(kind)
    \/ \E err \in CallerErrors : CallerHolds(err)
    \/ Classify

\* a request body and the Read calls made on it
ReadNext ==
    \/ \E n \in 0..MaxBody : AttachBody(n)
    \/ \E size \in BufSizes : BodyRead(size)

\* a renewal and a cancellation of the same subscription
RaceNext ==
    \/ \E g \in PaymentGateways, p \in Periods : RenewFind(g, p)
    \/ RenewUpdate
    \/ \E atPeriodEnd \in BOOLEAN : CancelFind(atPeriodEnd)
    \/ \E columns \in BOOLEAN : CancelUpdate(columns)
    \/ DayTick

Init ==
    /\ TokenInit /\ EventInit /\ SubInit /\ HookInit
    /\ PayInit /\ PollInit /\ RaceInit /\ ClientInit /\ ReadInit

SpecToken == Init /\ [][TokenNext]_vars

SpecLock == Init /\ [][LockNext]_vars

SpecRequest == Init /\ [][RequestNext]_vars

SpecEvent == Init /\ [][EventNext]_vars

SpecRetry == Init /\ [][RetryNext]_vars

SpecSub == Init /\ [][SubNext]_vars

SpecJobs == Init /\ [][JobsNext]_vars

SpecPayment == Init /\ [][PaymentNext]_vars

SpecRace == Init /\ [][RaceNext]_vars

SpecClient == Init /\ [][ClientNext]_vars

SpecRead == Init /\ [][ReadNext]_vars

\* once called, the goroutine runs, the HTTP client answers or gives up
\* (its Timeout is 30 s) and the clock goes on
SpecWait ==
    /\ Init /\ [][WaitNext]_vars
    /\ WF_vars(LoopTest)
    /\ WF_vars(\E answer \in PollAnswers : GetRecurrenceReturns(answer))
    /\ WF_vars(SelectDone \/ SelectTimer)
    /\ WF_vars(WaitTick)

SpecWebhook == Init /\ [][WebhookNext]_vars

SpecServe == Init /\ [][ServeNext]_vars

(***************************************************************************)
(* Claims about the TokenManager                                           *)
(***************************************************************************)

\* g's GetToken has returned
Returned(g) == pc[g] = "done" /\ call[g].op = "GetToken"

\* g and h missed the fast path before any request of their burst was sent
SameBurst(g, h) ==
    /\ call[g].missAt # None
    /\ call[g].missAt = call[h].missAt

C2_FreshAfterInvalidate ==
    \A g \in Goroutines :
        (Returned(g) /\ call[g].startInv # None /\ call[g].err = "nil") =>
            \/ call[g].tok > call[g].startInv
            \/ call[g].tok = NoToken /\ call[g].myReq > call[g].startInv

\* a token was handed out, Invalidate ran, and a later call got a newer one
C2_Witness ==
    \E g, h \in Goroutines :
        /\ Returned(h) /\ call[h].tok # NoToken
        /\ Returned(g) /\ call[g].startInv >= call[h].tok
        /\ call[g].err = "nil" /\ call[g].tok > call[g].startInv

\* C3 as stated: every token handed out has at least refreshLead remaining
\* before expiresAt when it is returned, whatever expires_in was answered.
C3_LeadRemainsAlways ==
    \A g \in Goroutines :
        (Returned(g) /\ call[g].err = "nil" /\ call[g].tok # NoToken) =>
            call[g].remain >= RefreshLead

\* C3 (amended): a token handed out from the cache (fast path or
\* double-check) has more than refreshLead remaining when it is returned; a
\* token returned directly after a refresh has exactly the answered
\* expires_in remaining, whatever that is.
C3_LeadRemainsFromCache ==
    \A g \in Goroutines :
        (Returned(g) /\ call[g].err = "nil" /\ call[g].tok # NoToken) =>
            IF call[g].myReq = 0
            THEN call[g].remain > RefreshLead
            ELSE call[g].remain = call[g].ein

\* a token was handed out on the fast path
C3_Witness ==
    \E g \in Goroutines :
        /\ Returned(g) /\ call[g].missAt = None /\ call[g].tok # NoToken
        /\ call[g].remain > RefreshLead

\* the answers refresh treats as failures
FailedAnswers == {a \in TokenAnswers : a.kind # "ok"}

\* C10: when the token endpoint's answer is a failure, GetToken returns
\* that error and token and expiresAt are what they were before.
C10_FailedRefreshKeepsCache ==
    [][\A g \in Goroutines, ans \in FailedAnswers :
          RefreshResponse(g, ans) =>
              /\ call'[g].err = ans.kind
              /\ pc'[g] = "done"
              /\ token' = token
              /\ expiresAt' = expiresAt]_vars

\* a refresh has failed and the token cached before it, not yet expired,
\* is still there
C10_Witness ==
    \E g \in Goroutines :
        /\ Returned(g) /\ call[g].err \in {"transport_error", "non200", "bad_json"}
        /\ token # NoToken /\ now < expiresAt

(***************************************************************************)
(* Claims about doRequest                                                  *)
(***************************************************************************)

\* C9 as stated: a call that ends in the authentication failure has sent
\* its request twice, the second time after Invalidate and a fresh token.
C9_RetriedOnceOn401 ==
    \A g \in Requesters :
        (pc[g] = "done" /\ call[g].op = "doRequest"
            /\ call[g].err = "unauthorized") => call[g].attempts = 2

(***************************************************************************)
(* Claims about the webhook handlers                                       *)
(***************************************************************************)

\* C4: a notification delivered twice (the same PIX endToEndId or the same
\* recurrence id) reaches the payment/recurrence handler at most once: no
\* callback is invoked a second time for an id it has already been given.
C4_DuplicateDeliveredOnce ==
    \A c \in Callbacks : c[2] # NoEvent => invoked[c] <= 1

\* the signature of the last delivery was required by the handler and was
\* missing or not the HMAC of the body under the handler's secret
BadSignatureWhereRequired ==
    /\ last.handler = "efi"
    /\ last.secret # NoSecret
    /\ ~last.skip
    /\ last.sigKind # "valid"

\* C7: when efi.WebhookHandler requires a signature (WebhookSecret set,
\* SkipSignatureValidation off), a request whose signature is missing or is
\* not the HMAC of its body is never parsed nor dispatched to a callback
\* (OnError included) and is not answered 200; once it has passed the
\* method check and its body has been read, the answer is 401.
C7_BadSignatureRejected ==
    BadSignatureWhereRequired =>
        /\ ~last.parsed
        /\ last.dispatched = <<>>
        /\ ~last.onError
        /\ last.status # 200
        /\ (last.method = "POST" /\ last.readOk => last.status = 401)

\* a POST of a payload with a PIX entry, signed with another key, to a
\* handler that requires the signature, has been answered 401
C7_Witness ==
    /\ BadSignatureWhereRequired
    /\ last.sigKind = "wrong_key"
    /\ last.method = "POST"
    /\ last.readOk
    /\ last.body.valid
    /\ Len(last.body.pix) > 0
    /\ last.status = 401

(***************************************************************************)
(* Claims about WebhookEvent                                               *)
(***************************************************************************)

\* the deltas of the first MaxWebhookRetries failures, in minutes
RetryDeltas == <<1, 2, 4, 8, 16>>

\* C5: the k-th call to MarkFailed, k = 1..5, sets nextRetryAt to the time
\* of the call plus 1, 2, 4, 8, 16 minutes; from the 6th call on MarkFailed
\* leaves nextRetryAt as it was, and the event is failed with no retry
\* allowed (CanRetry false, IsRetryDue false at every later time).
C5_BackoffSchedule ==
    /\ \A k \in DOMAIN failLog :
          IF k <= Len(RetryDeltas)
          THEN failLog[k].after = failLog[k].at + RetryDeltas[k]
          ELSE failLog[k].after = failLog[k].before
    /\ ev.retryCount = Len(failLog)
    /\ (Len(failLog) > Len(RetryDeltas) /\ ev.status = "failed") =>
          /\ ~CanRetry(ev)
          /\ \A t \in minute..(minute + 2 * RetryDeltas[Len(RetryDeltas)]) :
                ~IsRetryDue(ev, t)
    /\ (failLog # <<>> /\ ev.status = "failed") =>
          ev.nextRetryAt = failLog[Len(failLog)].after

\* the event has just failed for the 6th time: nextRetryAt is still what the
\* 5th failure scheduled, 16 minutes after it
C5_Witness ==
    /\ Len(failLog) = MaxWebhookRetries + 1
    /\ ev.status = "failed"
    /\ ev.retryCount = MaxWebhookRetries + 1
    /\ ev.nextRetryAt = failLog[MaxWebhookRetries].at + 16
    /\ failLog[MaxWebhookRetries + 1].at > failLog[MaxWebhookRetries].at

(***************************************************************************)
(* Claims about Subscription and the payment ledger                        *)
(***************************************************************************)

\* C6: no Subscription operation takes a canceled or expired subscription
\* back to active or trialing.
C6_TerminalStaysTerminal ==
    [][sub.status \in {"canceled", "expired"} =>
          sub'.status \notin {"active", "trialing"}]_vars

\* the ledger already holds a row for this gateway payment id
InLedger(paymentID) ==
    \E i \in DOMAIN payments : payments[i].gatewayPaymentID = paymentID

\* C8: applying a confirmed-payment event whose gateway payment id is already
\* in the ledger is a no-op: the subscription (status, current period) and
\* the ledger stay as the first application left them.
C8_DuplicatePaymentNoOp ==
    [][\A id \in PaymentIDs :
          (InLedger(id) /\ handlePaymentReceived(id)) =>
              UNCHANGED <<sub, payments>>]_vars

(***************************************************************************)
(* Webhook answers after processing                                        *)
(***************************************************************************)

\* the last delivery was a POST whose body was read and is valid JSON
ValidPost == last.method = "POST" /\ last.readOk /\ last.body.valid

\* the last delivery passed the signature check its handler makes:
\* efi.WebhookHandler checks if a secret is set and the switch is off,
\* handlers.WebhookHandler never checks
PassedSignatureCheck ==
    last.handler = "efi" /\ last.secret # NoSecret /\ ~last.skip
        => last.sigKind = "valid"

\* the last delivery carried the HMAC of its body under the shared secret
Authentic == last.secret # NoSecret /\ last.sigKind = "valid"

\* C11 as stated: every syntactically valid, authenticated POST is answered
\* 200 with body {"status":"ok"}, whether or not a callback failed.
C11_AlwaysOk ==
    last.handler # "none" /\ ValidPost /\ Authentic =>
        last.status = 200 /\ last.reply = "ok"

\* C11: a syntactically valid POST that passed its handler's signature
\* check is answered 200 whether or not a callback returned an error, with
\* body {"status":"ok"} by efi.WebhookHandler and {"status":"received"} by
\* handlers.WebhookHandler; the failure shows in neither status nor body.
C11_AcknowledgedDespiteError ==
    last.handler # "none" /\ ValidPost /\ PassedSignatureCheck =>
        /\ last.status = 200
        /\ last.reply = IF last.handler = "efi" THEN "ok" ELSE "received"

\* a signed, valid POST whose callback returned an error has been answered
\* by efi.WebhookHandler, which also called OnError
C11_Witness ==
    /\ last.handler = "efi" /\ ValidPost /\ Authentic /\ ~last.skip
    /\ last.failed /\ last.onError
    /\ last.status = 200

(***************************************************************************)
(* The periodic jobs                                                       *)
(***************************************************************************)

C13_TrialExpiry ==
    [][CheckExpiredTrials /\ sub.status = "trialing" =>
          IF sub.trialEnd < day THEN sub'.status = "expired" ELSE sub' = sub]_vars

\* a trial that ends on day 20 and saw no payment event was found by the
\* check on day 21 and is expired
C13_Witness ==
    /\ subOps = 0 /\ sub.trialEnd = TrialLength /\ day = TrialLength + 1
    /\ sub.status = "expired"
    /\ jobs.last = [job |-> "CheckExpiredTrials", at |-> day,
                    before |-> "trialing", after |-> "expired"]

(***************************************************************************)
(* Subscription fields                                                     *)
(***************************************************************************)

\* no confirmed payment has been applied to the subscription: Activate has
\* set no gateway and the ledger holds no row
NeverPaid == sub.gateway = NoGateway /\ payments = <<>>

\* C14: currentPeriodEnd is assigned by confirmed-payment events only: a
\* subscription to which none has been applied, a new trial included, has
\* no currentPeriodEnd.
C14_PeriodEndOnlyByPayment == NeverPaid => sub.periodEnd = None

(***************************************************************************)
(* PaymentHistory status                                                   *)
(***************************************************************************)

\* how far a status is along pending -> processing -> {succeeded | failed}
\* -> refunded
PaymentRank(status) ==
    CASE status = "pending" -> 0
      [] status = "processing" -> 1
      [] status \in {"succeeded", "failed"} -> 2
      [] status = "refunded" -> 3

\* C15: whatever methods are called on a PaymentHistory record, its status
\* never moves back along pending -> {succeeded | failed} -> refunded and
\* never switches between succeeded and failed.
C15_PaymentStatusForwardOnly ==
    [][/\ PaymentRank(pay'.status) >= PaymentRank(pay.status)
       /\ (pay.status \in {"succeeded", "failed"} /\ pay'.status # "refunded"
              => pay'.status = pay.status)]_vars

(***************************************************************************)
(* Retries of a webhook event                                              *)
(***************************************************************************)

\* the runs of Process so far: those that failed and the one that is under
\* way or succeeded
ProcessRuns ==
    Len(failLog) + (IF ev.status \in {"processing", "processed"} THEN 1 ELSE 0)

StartsWait == wait.pc = "poll" /\ wait'.pc = "select"

\* this step starts a poll: GetRecurrence is called
StartsPoll == wait.pc = "loop" /\ wait'.pc = "poll"

\* this step returns
Returns == wait.pc # "done" /\ wait'.pc = "done"

\* the call is under way and its timeout has elapsed
TimeoutElapsed == wait.pc \notin {"idle", "done"} /\ wait.t >= wait.deadline

\* the call is under way and its context is cancelled
ContextCancelled == wait.pc \notin {"idle", "done"} /\ wait.cancelled

\* a call with a non-positive timeout neither polls nor returns anything
\* but the timeout error
NonPositiveTimeout ==
    wait.pc \notin {"idle", "done"} /\ wait.timeout <= 0 =>
        /\ ~wait'.polled
        /\ (Returns => wait'.result = "timeout")

\* C19 as stated, without the termination: once the context is cancelled
\* or the timeout has elapsed the call starts no wait and what it returns
\* is an error, and a non-positive timeout returns the timeout error
\* without polling.
C19_NoWaitOnceElapsed ==
    [][/\ (ContextCancelled \/ TimeoutElapsed =>
              /\ ~StartsWait
              /\ (Returns => wait'.result \in ErrorResults))
       /\ NonPositiveTimeout]_vars

\* C19: the call always returns; once its context is cancelled it starts
\* no wait and returns an error; once its timeout has elapsed it starts no
\* poll, starts at most one wait (after the poll that was under way) and
\* returns the timeout error from the loop test; a non-positive timeout
\* returns the timeout error without polling.
C19_Terminates ==
    /\ (wait.pc # "idle") ~> (wait.pc = "done")
    /\ [][/\ (ContextCancelled =>
                  /\ ~StartsWait
                  /\ (Returns => wait'.result \in ErrorResults))
           /\ (TimeoutElapsed =>
                  /\ ~StartsPoll
                  /\ wait'.lateWaits <= 1
                  /\ (Returns /\ wait.pc = "loop" => wait'.result = "timeout"))
           /\ NonPositiveTimeout]_vars

\* a call whose poll outlasted the timeout waited once more and then
\* returned the timeout error
C19_Witness ==
    /\ wait.pc = "done" /\ wait.result = "timeout"
    /\ wait.timeout > 0 /\ wait.polled /\ wait.lateWaits = 1

(***************************************************************************)
(* Concurrent operations on one Subscription                               *)
(***************************************************************************)

\* the fields the two operations write
Outcome(s) ==
    <<s.status, s.canceledAt, s.periodStart, s.periodEnd, s.gateway>>

\* the outcomes of the two serial orders of the renewal and the
\* cancellation on the subscription as it was stored
SerialOutcomes ==
    LET s == NewTrialSubscription(0, TrialLength)
        renewed(x) == Activated(x, race.gateway, race.period)
        canceled(x) == Canceled(x, race.atPeriodEnd, race.now)
    IN  {Outcome(canceled(renewed(s))), Outcome(renewed(canceled(s)))}

\* C20: a Cancel and a renewal (Activate) of the same subscription do not
\* interleave: once both are done, status, canceledAt, currentPeriodStart,
\* currentPeriodEnd and gateway are those of one of the two serial orders.
C20_SerialOutcome ==
    race.renew.pc = "done" /\ race.cancel.pc = "done" =>
        Outcome(race.stored) \in SerialOutcomes

(***************************************************************************)
(* Claims about the webhook handlers, continued                            *)
(***************************************************************************)

\* C21: the response of a webhook request is written without waiting for
\* the callback: while a callback of the request is still running, the
\* handler can write the response.
C21_ResponseNotBlocked ==
    serve.pc = "callback" => ENABLED WriteResponse

\* the i-th PIX entry of the last delivery's payload was handed to payment
\* handling
EntryDispatched(i) ==
    \E j \in DOMAIN last.dispatched :
        /\ last.dispatched[j][1] \in {"OnPixPayment", "eventHandler"}
        /\ last.dispatched[j][2] = last.body.pix[i]

\* C22: of a payload with k >= 1 PIX entries that a handler with payment
\* handling set up has accepted, every entry is dispatched to payment
\* handling, k invocations in all, not only the first entry.
C22_EveryEntryDispatched ==
    /\ last.handler # "none" /\ ValidPost /\ PassedSignatureCheck
    /\ Len(last.body.pix) >= 1
    /\ last.dispatched # <<>>
    => /\ \A i \in DOMAIN last.body.pix : EntryDispatched(i)
       /\ Cardinality({j \in DOMAIN last.dispatched :
                          last.dispatched[j][1] # "OnRecurrenceUpdate"})
              = Len(last.body.pix)

(***************************************************************************)
(* Claims about the errors of efi.Client                                   *)
(***************************************************************************)

\* C23: of a call answered by the gateway, the returned error is the
\* duplicate-resource condition (IsDuplicateRecurrence) if the HTTP status
\* is 409 and a server error (IsServerError) if it is 5xx; for any other
\* 4xx but 401 an error is returned that is neither.
C23_StatusClassified ==
    cli.op = "CreateRecurrence" /\ cli.at = "response" =>
        /\ cli.resp.code = 409 => IsDuplicateRecurrence(cli.err)
        /\ cli.resp.code >= 500 => IsServerError(cli.err)
        /\ cli.resp.code \in (400..499) \ {401, 409} =>
              /\ cli.err # Nil
              /\ ~IsDuplicateRecurrence(cli.err)
              /\ ~IsServerError(cli.err)

\* C24: when the token endpoint answers with a status other than 200,
\* GetToken returns an authentication error the caller can recognise:
\* IsUnauthorized is true for it.
C24_TypedAuthError ==
    cli.op = "GetToken" /\ cli.kind = "non200" => IsUnauthorized(cli.err)

\* C25: CreateRecurrence with no payer tax ID (neither CPF nor CNPJ), or
\* with no contract, amount or periodicity, returns an error without
\* asking for a token and without sending a request.
C25_InvalidRequestNotSent ==
    /\ cli.op = "CreateRecurrence"
    /\ \/ ~cli.req.cpf /\ ~cli.req.cnpj
       \/ ~cli.req.contract
       \/ ~cli.req.amount
       \/ ~cli.req.periodicity
    => cli.err # Nil /\ cli.tokenCalls = 0 /\ cli.sent = 0

\* CreateRecurrence has rejected a request that lacks only the tax ID
C25_Witness ==
    /\ cli.op = "CreateRecurrence"
    /\ cli.req.contract /\ cli.req.amount /\ cli.req.periodicity
    /\ ~cli.req.cpf /\ ~cli.req.cnpj
    /\ cli.err # Nil /\ cli.sent = 0

\* the error a chain ends in: what has been wrapped
Innermost(err) == err[Len(err)]

\* C27: IsNotFound is true of an error exactly when the error is or wraps
\* the ErrNotFound sentinel or an APIError whose Status is 404; it is
\* false of nil, of an APIError of any other status and of every other
\* sentinel.
C27_IsNotFoundExactly ==
    IsNotFound(cli.err) <=>
        /\ cli.err # Nil
        /\ \/ Innermost(cli.err) = Sentinel("ErrNotFound")
           \/ /\ Innermost(cli.err).kind = "api"
              /\ Innermost(cli.err).status = 404

\* the caller holds a wrapped ErrNotFound, which IsNotFound recognises
C27_Witness ==
    /\ cli.op = "caller"
    /\ cli.err = Wrap(<<Sentinel("ErrNotFound")>>)
    /\ IsNotFound(cli.err)

(***************************************************************************)
(* Claims about the webhook handlers: the method                           *)
(***************************************************************************)

\* C26: a webhook request whose method is not POST is answered 405 before
\* its body is read or parsed, and no payment, recurrence or error callback
\* is invoked for it.
C26_NonPostRejected ==
    last.handler # "none" /\ last.method # "POST" =>
        /\ last.status = 405
        /\ ~last.parsed
        /\ last.dispatched = <<>>
        /\ ~last.onError

\* a GET has been delivered to the handler with callbacks behind it and
\* answered 405
C26_Witness ==
    /\ last.handler = "handlers"
    /\ last.method = "GET"
    /\ last.status = 405
    /\ last.reply = "error text"

(***************************************************************************)
(* Claims about the TokenManager, continued                                *)
(***************************************************************************)

\* the goroutines whose token request is in flight
InFlight == {g \in Goroutines : pc[g] = "inflight"}

\* a step that writes token or expiresAt is Invalidate clearing both with
\* the lock taken for the step, or the lock holder storing the token and
\* the expiry of the answer to its request
WrittenTogetherUnderLock ==
    (token' # token \/ expiresAt' # expiresAt) =>
        \/ mu = 0 /\ mu' = 0 /\ token' = NoToken /\ expiresAt' = ZeroTime
        \/ \E g \in InFlight :
              /\ mu = g /\ mu' = 0 /\ pc'[g] # "inflight"
              /\ token' = call'[g].tok
              /\ expiresAt' = now + call'[g].ein

\* C28: at most one token request of a TokenManager is in flight at any
\* time, sent by the holder of the exclusive lock, whatever GetToken and
\* Invalidate callers run; token and expiresAt are only written together,
\* in a step of the goroutine that holds the exclusive lock.
C28_OneRequestInFlight ==
    /\ [](Cardinality(InFlight) <= 1 /\ \A g \in InFlight : mu = g)
    /\ [][WrittenTogetherUnderLock]_vars

\* one goroutine's request is in flight while the other waits for the lock
C28_Witness ==
    \E g, h \in Goroutines :
        g # h /\ pc[g] = "inflight" /\ pc[h] = "refresh" /\ mu = g

\* C29: GetToken never returns an empty token together with a nil error,
\* whatever the token endpoint answers.
C29_NoEmptyTokenWithoutError ==
    \A g \in Goroutines :
        Returned(g) /\ call[g].err = "nil" => call[g].tok # NoToken

\* g holds the token its GetToken returned: GetToken itself has returned,
\* or doRequest is about to send the request with it
HoldsToken(g) ==
    /\ Returned(g) \/ pc[g] = "send"
    /\ call[g].err = "nil"

\* C30: an authenticated call answered 401 calls Invalidate before it
\* returns, so a GetToken that starts once the call has returned does not
\* return the rejected token: its token is the answer to a token request
\* other than the one that produced the rejected token.
C30_RejectedTokenNotReturned ==
    \A g \in Goroutines :
        HoldsToken(g) => TokenSource(call[g]) \notin call[g].stale

\* a call was answered 401 and has returned, and a GetToken started after
\* it has returned a token of a later token request
C30_Witness ==
    \E g \in Goroutines :
        /\ Returned(g) /\ call[g].err = "nil" /\ call[g].tok # NoToken
        /\ call[g].stale # {}
        /\ \A k \in call[g].stale : call[g].tok > k

\* C31 as stated: the Invalidate of a call answered 401 leaves the cache
\* alone when the cached token is no longer the one the request was sent
\* with, because another goroutine has stored a newer one.
C31_ClearsOnlyOwnToken ==
    [][\A g \in Goroutines :
          InvalidateOn401(g) /\ token # NoToken /\ token # call[g].rejected
              => token' = token /\ expiresAt' = expiresAt]_vars

\* C31 (amended): the Invalidate of a call answered 401 clears token and
\* expiresAt whatever is cached, the newer token of another goroutine
\* included.
C31_ClearsWhateverIsCached ==
    [][\A g \in Goroutines :
          InvalidateOn401(g) => token' = NoToken /\ expiresAt' = ZeroTime]_vars

\* a call answered 401 has returned after clearing a token newer than the
\* one it was sent with, and the cache is empty
C31_Witness ==
    \E g \in Goroutines :
        /\ pc[g] = "done" /\ call[g].rejected # None
        /\ call[g].cleared # None /\ call[g].cleared > call[g].rejected
        /\ token = NoToken

\* the outcomes of a request that are failures other than 401: a transport
\* error, a 4xx that is not 401, a 5xx
OtherFailures == ApiOutcomes \ {"200", "401"}

LifecycleEdges ==
    {<<"trialing", "active">>, <<"active", "past_due">>,
     <<"past_due", "active">>, <<"trialing", "expired">>,
     <<"trialing", "canceled">>, <<"active", "canceled">>,
     <<"past_due", "canceled">>}

\* C33: every change of a subscription's status follows an edge of the
\* lifecycle graph; past_due is entered from active only, expired from
\* trialing only, and canceled and expired are never left.
C33_StatusFollowsLifecycle ==
    [][sub'.status # sub.status =>
          <<sub.status, sub'.status>> \in LifecycleEdges]_vars

(***************************************************************************)
(* Claims about the order of the callbacks and the signature check         *)
(***************************************************************************)

\* the efi handler is serving a request and has called the first serve.at
\* callbacks of serve.plan
ServingEfi == serve.pc \in {"callback", "respond"} /\ serve.handler = "efi"

EfiChecks == last.secret # NoSecret /\ ~last.skip

\* the callbacks of the last delivery's payload, if the handler has any
AllCallbacks ==
    Planned([secret |-> last.secret, skip |-> last.skip, callbacks |-> TRUE],
            last.body)

\* C35: efi.WebhookHandler checks the signature exactly when WebhookSecret
\* is set and SkipSignatureValidation is off: then a readable POST is
\* answered 401 if and only if its signature is not valid; in every other
\* configuration a valid POST is parsed, handed to the callbacks the handler
\* has, and answered 200, whatever the signature header, absent included.
C35_SignatureCheckedIffConfigured ==
    last.handler = "efi" /\ last.method = "POST" /\ last.readOk =>
        /\ EfiChecks => (last.status = 401 <=> last.sigKind # "valid")
        /\ ~EfiChecks => last.status # 401
        /\ ~EfiChecks /\ last.body.valid =>
              /\ last.parsed /\ last.status = 200
              /\ \/ last.dispatched = <<>> /\ ~last.failed
                 \/ last.dispatched = AllCallbacks
                 \/ /\ last.failed /\ Len(last.dispatched) <= Len(AllCallbacks)
                    /\ last.dispatched =
                           SubSeq(AllCallbacks, 1, Len(last.dispatched))

\* a handler with a secret and the switch on has dispatched a POST that
\* carried no signature, and answered 200
C35_Witness ==
    /\ last.handler = "efi" /\ last.secret # NoSecret /\ last.skip
    /\ ValidPost /\ last.sigKind = "missing"
    /\ Len(last.body.pix) > 0 /\ last.dispatched = AllCallbacks
    /\ last.status = 200

\* the last delivery as a request, with another signature kind
LastRequestSigned(kind) ==
    [method |-> last.method, readOk |-> last.readOk, body |-> last.body,
     sigKind |-> kind]

\* the event types the handler of the last delivery had a handler for, as
\* far as the delivery shows
LastRegistered == IF last.dispatched # <<>> THEN {"pix"} ELSE {}

IsPrefix(s, t) == Len(s) <= Len(t) /\ s = SubSeq(t, 1, Len(s))

\* C37: the Read calls on a request body advance through its bytes: what
\* they have returned so far is a prefix of the body, every byte once and in
\* order, and a call that finds all bytes consumed reports end-of-stream.
C37_ReadsEveryByteOnceThenEOF ==
    rd.attached =>
        /\ IsPrefix(rd.out, rd.bytes)
        /\ rd.reads > 0 /\ rd.n = 0 => rd.err = "EOF"

(***************************************************************************)
(* Claims about what WaitForRecurrenceApproval returns                     *)
(***************************************************************************)

\* C38: WaitForRecurrenceApproval returns a nil error only from a poll that
\* observed the status approved; a poll that observes rejected, cancelled or
\* expired ends the call at once with that recurrence and an error, an error
\* of GetRecurrence ends it at once with that error, and a call that has
\* returned polls no more.
C38_NilErrorOnlyWhenApproved ==
    /\ [](wait.pc = "done" =>
            wait.result = "approved" \/ wait.result \in ErrorResults)
    /\ [][/\ wait'.pc = "done" /\ wait.pc # "done"
              /\ wait'.result \notin ErrorResults
              => GetRecurrenceReturns("approved")
          /\ \A answer \in {"rejected", "cancelled", "expired"} :
                GetRecurrenceReturns(answer) =>
                    /\ wait'.pc = "done" /\ wait'.result = answer
                    /\ answer \in ErrorResults
          /\ GetRecurrenceReturns("error") =>
                wait'.pc = "done" /\ wait'.result = "get error"
          /\ wait.pc = "done" => wait' = wait]_vars

\* a call has returned on observing a rejected recurrence, after a wait
C38_Witness ==
    /\ wait.pc = "done" /\ wait.result = "rejected"
    /\ wait.polled /\ wait.t > 0 /\ wait.wakeAt > 0

(***************************************************************************)
(* Claims about ClassifyError                                              *)
(***************************************************************************)

\* ClassifyError has been applied to an APIError that nothing wraps
ClassifiedAPIError ==
    /\ cli.op = "ClassifyError"
    /\ Len(cli.arg) = 1 /\ cli.arg[1].kind = "api"

\* C39: ClassifyError keeps the classification of an APIError: each of
\* IsNotFound, IsUnauthorized, IsRateLimited, IsServerError and
\* IsDuplicateRecurrence says of ClassifyError(e) what it says of e.
C39_ClassifyKeepsPredicates ==
    ClassifiedAPIError =>
        /\ IsNotFound(cli.err) = IsNotFound(cli.arg)
        /\ IsUnauthorized(cli.err) = IsUnauthorized(cli.arg)
        /\ IsRateLimited(cli.err) = IsRateLimited(cli.arg)
        /\ IsServerError(cli.err) = IsServerError(cli.arg)
        /\ IsDuplicateRecurrence(cli.err) = IsDuplicateRecurrence(cli.arg)
====
